---- MODULE Spec2Model ----
(***************************************************************************)
(* State-machine model of server.js: the task registry, the per-task       *)
(* session bootstrap, the interval-driven message loop and the WebSocket   *)
(* control channel.  Every action is one callback of the Node.js event     *)
(* loop (a macrotask) together with the promise continuations (microtasks) *)
(* it triggers, because microtasks run to completion before the next       *)
(* callback is taken.                                                      *)
(*                                                                         *)
(* JavaScript strings are sequences of one-character strings.              *)
(***************************************************************************)
EXTENDS Integers, Sequences, FiniteSets, TLC

(* ------------------------------ bounds -------------------------------- *)

\* number of task ids uuidv4() hands out in one run
MaxTasks == 2
\* number of control-channel connections
MaxConns == 2
\* timer firings in one run, over all tasks
MaxTicks == 3
\* cycles of one task that may be awaiting a remote send at once
MaxInflight == 2

TaskIds == 1..MaxTasks
Conns == 1..MaxConns

(* --------------------------- string helpers --------------------------- *)

NL == "\n"
Whitespace == {" ", NL}
Digits == {"0", "1", "2", "3", "4", "5", "6", "7", "8", "9"}

\* String.prototype.split(sep) for a one-character separator
RECURSIVE SplitFrom(_, _, _, _)
SplitFrom(s, sep, i, cur) ==
    IF i > Len(s) THEN <<cur>>
    ELSE IF s[i] = sep THEN <<cur>> \o SplitFrom(s, sep, i + 1, <<>>)
    ELSE SplitFrom(s, sep, i + 1, Append(cur, s[i]))

Split(s, sep) == SplitFrom(s, sep, 1, <<>>)

\* String.prototype.trim()
RECURSIVE TrimLeft(_)
TrimLeft(s) ==
    IF s # <<>> /\ Head(s) \in Whitespace THEN TrimLeft(Tail(s)) ELSE s

RECURSIVE TrimRight(_)
TrimRight(s) ==
    IF s # <<>> /\ s[Len(s)] \in Whitespace
    THEN TrimRight(SubSeq(s, 1, Len(s) - 1)) ELSE s

Trim(s) == TrimRight(TrimLeft(s))

\* s.split(sep).map(l => l.trim()).filter(Boolean)
SplitList(s, sep) ==
    LET parts == Split(s, sep)
        trimmed == [i \in 1..Len(parts) |-> Trim(parts[i])]
    IN  SelectSeq(trimmed, LAMBDA l : l # <<>>)

\* the test without its anchors: /\d+/.test(s)
ThreadIDValidUnanchored(s) == \E i \in 1..Len(s) : s[i] \in Digits

\* /^\d+$/.test(s)
ThreadIDValid(s) == Len(s) > 0 /\ \A i \in 1..Len(s) : s[i] \in Digits


\* parseInt(s): optional leading whitespace, optional sign, then the longest
\* run of decimal digits; NaN when there is no digit.  A number n is <<n>>
\* and NaN is <<>>.
NaN == <<>>

DigitValue(c) == CHOOSE d \in 0..9 : Digits \cap {ToString(d)} = {c}

RECURSIVE ParseDigits(_, _, _)
ParseDigits(s, i, acc) ==
    IF i <= Len(s) /\ s[i] \in Digits
    THEN ParseDigits(s, i + 1, 10 * acc + DigitValue(s[i]))
    ELSE acc

ParseInt(str) ==
    LET s == TrimLeft(str)
        neg == s # <<>> /\ Head(s) = "-"
        body == IF s # <<>> /\ Head(s) \in {"-", "+"} THEN Tail(s) ELSE s
    IN  IF body = <<>> \/ Head(body) \notin Digits THEN NaN
        ELSE IF neg THEN <<0 - ParseDigits(body, 1, 0)>>
        ELSE <<ParseDigits(body, 1, 0)>>

\* String(n) for an integer n
RECURSIVE NatToString(_)
NatToString(n) ==
    IF n < 10 THEN <<ToString(n)>>
    ELSE Append(NatToString(n \div 10), ToString(n % 10))

NumToString(n) == IF n < 0 THEN <<"-">> \o NatToString(0 - n) ELSE NatToString(n)

\* x || 10 for the result x of parseInt: NaN and 0 are falsy
OrTen(x) == IF x = NaN THEN 10 ELSE IF x[1] = 0 THEN 10 ELSE x[1]

\* `${undefined}`
Undefined == <<"u", "n", "d", "e", "f", "i", "n", "e", "d">>

Max(a, b) == IF a >= b THEN a ELSE b

(* --------------------------- control inputs --------------------------- *)

Cookies0 == <<>>
Cookies1 == <<"c">>
Cookies2 == <<"c", NL, " ", NL, "d">>
Cookies3 == <<"c", NL, "d", NL, "e">>
Cookies4 == <<"c", NL, "d", NL, "e", NL, "f", NL>>

Msgs0 == <<" ", NL>>
Msgs1 == <<"h", "i">>
Msgs2 == <<"h", "i", NL, NL, " ", "b", "y", "e", " ">>

Names0 == <<" ", ",">>
NamesA == <<"A">>
NamesAB == <<"A", ",", " ", "B">>
NamesZ == <<"Z">>

Thread12 == <<"1", "2">>
Thread7 == <<" ", "7", " ">>
ThreadAbc == <<"a", "b", "c">>
Thread1a == <<"1", "a">>
ThreadEmpty == <<>>

\* data.delay as parseInt reads it, String(data.delay)
Delay5 == <<"5">>
Delay0 == <<"0">>
DelayNeg == <<"-", "5">>
DelayMissing == Undefined

Req(c, m, th, d, h, l) ==
    [cookieContent |-> c, messageContent |-> m, threadID |-> th, delay |-> d,
     hatersName |-> h, lastHereName |-> l]

\* the "start" messages a client sends
StartRequests ==
    { Req(Cookies1, Msgs2, Thread12, Delay5, NamesA, NamesZ),
      Req(Cookies2, Msgs1, Thread7, DelayMissing, NamesAB, NamesZ),
      Req(Cookies1, Msgs0, Thread12, Delay0, NamesA, NamesZ),
      Req(Cookies1, Msgs1, Thread12, DelayNeg, Names0, Names0),
      Req(Cookies0, Msgs1, Thread12, Delay5, NamesA, NamesZ),
      Req(Cookies1, Msgs2, ThreadAbc, Delay5, NamesA, NamesZ),
      Req(Cookies1, Msgs1, Thread1a, Delay5, NamesA, NamesZ),
      Req(Cookies2, Msgs1, ThreadEmpty, Delay5, NamesA, NamesZ) }

\* fewer of them, for the runs with several tasks
FewRequests ==
    { Req(Cookies1, Msgs2, Thread12, Delay5, NamesA, NamesZ),
      Req(Cookies0, Msgs1, Thread12, Delay5, NamesA, NamesZ),
      Req(Cookies1, Msgs2, ThreadAbc, Delay5, NamesA, NamesZ) }

\* one request for each number of credentials from 0 to 4
PoolRequests ==
    { Req(c, Msgs1, Thread12, Delay5, NamesA, NamesZ) :
        c \in {Cookies0, Cookies1, Cookies2, Cookies3, Cookies4} }

\* the requests a run draws from, by the name the run's limits give
Requests(which) ==
    IF which = "few" THEN FewRequests
    ELSE IF which = "pool" THEN PoolRequests
    ELSE StartRequests

\* a task id no uuidv4() call returned
BogusId == 0

(* ------------------------------- state -------------------------------- *)

VARIABLES
    conns,        \* ws.readyState of each connection: "NONE", "OPEN", "CLOSED"
    tasks,        \* keys of the Map tasks
    task,         \* the task objects ever created, by task id
    monitorData,  \* [activeTasks, totalSent]
    timers,       \* interval handles that are active in the timer table
    rt,           \* per task: pending callbacks and awaiting async functions
    out,          \* messages the last callback sent on the control channel
    last,         \* the last callback and its input
    hist,         \* per task: counts of what has happened so far
    fired,        \* timer firings so far
    lim           \* the limits of the run: [tasks, conns, ticks, requests]

vars == <<conns, tasks, task, monitorData, timers, rt, out, last, hist, fired, lim>>

\* the program state a callback starts from
Cur ==
    [conns |-> conns, tasks |-> tasks, task |-> task, monitorData |-> monitorData,
     timers |-> timers, rt |-> rt, out |-> <<>>, hist |-> hist]

\* the program state a callback leaves
Becomes(s) ==
    /\ conns' = s.conns
    /\ tasks' = s.tasks
    /\ task' = s.task
    /\ monitorData' = s.monitorData
    /\ timers' = s.timers
    /\ rt' = s.rt
    /\ out' = s.out
    /\ hist' = s.hist

\* an outbound message; body is the tuple of its text fields
Event(c, type, taskId, body) == [to |-> c, type |-> type, taskId |-> taskId, body |-> body]

\* ws.send(JSON.stringify(ev)): a socket that is not open transmits nothing
WsSend(s, c, type, taskId, body) ==
    IF s.conns[c] = "OPEN"
    THEN [s EXCEPT !.out = Append(@, Event(c, type, taskId, body)),
                   !.hist = IF taskId \in DOMAIN s.hist /\ type \in {"stopped", "task_started"}
                            THEN [@ EXCEPT ![taskId][type] = @ + 1] ELSE @]
    ELSE s

\* RawSessionManager.log
Log(s, taskId, msg) ==
    LET ws == s.task[taskId].rawManager.ws
    IN  IF s.conns[ws] = "OPEN" THEN WsSend(s, ws, "log", taskId, msg) ELSE s

\* RawSessionManager.getHealthySessions
getHealthySessions(manager) ==
    LET healthy == SelectSeq(manager.sessions, LAMBDA e : e.healthy)
    IN  [i \in 1..Len(healthy) |-> healthy[i].api]

(* ---------------------------- task control ---------------------------- *)

\* task.intervalId = null
Null == 0

\* the counter kept by increments: monitorData.activeTasks++
CountTasksByIncrement(s) == [s EXCEPT !.monitorData.activeTasks = @ + 1]

\* monitorData.activeTasks = tasks.size
CountTasks(s) == [s EXCEPT !.monitorData.activeTasks = Cardinality(s.tasks)]

\* stopTask looking for the task object instead of the Registry entry
stopTaskOfKnownObject(s, taskId, ws, reason) ==
    IF taskId \notin DOMAIN s.task THEN s
    ELSE
        LET t == s.task[taskId]
            s1 == [s EXCEPT !.timers = IF t.intervalId # Null
                                       THEN @ \ {t.intervalId} ELSE @,
                            !.task[taskId].config.running = FALSE,
                            !.tasks = @ \ {taskId},
                            !.hist[taskId].teardowns = @ + 1,
                            !.hist[taskId].reason = reason]
            s2 == CountTasks(s1)
            s3 == Log(s2, taskId, <<"Task stopped", reason>>)
        IN  IF s3.conns[ws] = "OPEN"
            THEN WsSend(s3, ws, "stopped", taskId, <<reason>>)
            ELSE s3

\* stopTask(taskId, ws, reason)
stopTask(s, taskId, ws, reason) ==
    IF taskId \notin s.tasks THEN s
    ELSE
        LET t == s.task[taskId]
            s1 == [s EXCEPT !.timers = IF t.intervalId # Null
                                       THEN @ \ {t.intervalId} ELSE @,
                            !.task[taskId].config.running = FALSE,
                            !.tasks = @ \ {taskId},
                            !.hist[taskId].teardowns = @ + 1,
                            !.hist[taskId].reason = reason]
            s2 == CountTasks(s1)
            s3 == Log(s2, taskId, <<"Task stopped", reason>>)
        IN  IF s3.conns[ws] = "OPEN"
            THEN WsSend(s3, ws, "stopped", taskId, <<reason>>)
            ELSE s3

\* the comparison with > for >=
BreachReachedStrict(manager) == manager.unhealthyCount > manager.unhealthyThreshold

\* RawSessionManager.checkStopCondition: the state it leaves; it returns
\* BreachReached, which no caller reads
BreachReached(manager) == manager.unhealthyCount >= manager.unhealthyThreshold

\* the teardown made inside the check instead of deferred with setTimeout
checkStopConditionSync(s, taskId) ==
    LET m == s.task[taskId].rawManager
    IN  IF BreachReached(m)
        THEN LET s1 == Log(s, taskId, <<"Too many unhealthy cookies",
                                        ToString(m.unhealthyCount),
                                        ToString(m.totalSessions)>>)
                 s2 == [s1 EXCEPT !.hist[taskId].breaches = @ + 1]
             IN  stopTask(s2, taskId, m.ws, "Most cookies failed")
        ELSE s

checkStopCondition(s, taskId) ==
    LET m == s.task[taskId].rawManager
    IN  IF BreachReached(m)
        THEN LET s1 == Log(s, taskId, <<"Too many unhealthy cookies",
                                        ToString(m.unhealthyCount),
                                        ToString(m.totalSessions)>>)
             IN  [s1 EXCEPT !.rt[taskId].timeouts = @ + 1,
                            !.hist[taskId].breaches = @ + 1]
        ELSE s

\* the callback startTask gives to createRawSessions(task).then
BootstrapThen(s, taskId, ok) ==
    LET ws == s.task[taskId].ws
        s0 == [s EXCEPT !.rt[taskId].boot = [i |-> @.i, await |-> "done"]]
    IN  IF ~ok THEN stopTask(s0, taskId, ws, "No healthy cookies")
        ELSE LET s1 == [s0 EXCEPT !.task[taskId].intervalId = taskId,
                                  !.timers = @ \cup {taskId},
                                  !.hist[taskId].intervals = @ + 1]
             IN  WsSend(s1, ws, "task_started", taskId, <<>>)

\* createRawSessions from loop index i on, up to its next await: either the
\* login of credential i is started, or the loop is over, the promise
\* resolves and the then-callback runs
createRawSessions(s, taskId, i) ==
    IF i < Len(s.task[taskId].config.cookies)
    THEN LET s1 == Log(s, taskId, <<"Creating session", ToString(i + 1)>>)
         IN  [s1 EXCEPT !.rt[taskId].boot = [i |-> i, await |-> "login"]]
    ELSE BootstrapThen([s EXCEPT !.rt[taskId].boot.i = i], taskId,
                       Len(getHealthySessions(s.task[taskId].rawManager)) > 0)

\* the failure branches of createRawSession's two callbacks, and the
\* resumption of createRawSessions after resolve(null)
SessionFailed(s, taskId, msg) ==
    LET i == s.rt[taskId].boot.i
        s1 == [s EXCEPT !.task[taskId].rawManager.unhealthyCount = @ + 1]
        s2 == Log(s1, taskId, <<msg, ToString(i + 1)>>)
        s3 == checkStopCondition(s2, taskId)
    IN  createRawSessions(s3, taskId, i + 1)

\* the success branch of the getThreadInfo callback, and the resumption
SessionReady(s, taskId) ==
    LET i == s.rt[taskId].boot.i
        s1 == [s EXCEPT !.task[taskId].rawManager.sessions =
                            Append(@, [index |-> i, api |-> i, healthy |-> TRUE]),
                        !.task[taskId].rawManager.sessionQueue = Append(@, i)]
        s2 == Log(s1, taskId, <<"Session ready", ToString(i + 1)>>)
    IN  createRawSessions(s2, taskId, i + 1)

\* uuidv4(): an id not handed out before
FreshId(s) == Cardinality(DOMAIN s.task) + 1

\* the threshold rounded to the nearest integer instead of down
RawSessionManagerRounded(ws, taskId, totalSessions) ==
    [ws |-> ws, taskId |-> taskId, totalSessions |-> totalSessions,
     sessions |-> <<>>, sessionQueue |-> <<>>, unhealthyCount |-> 0,
     unhealthyThreshold |-> Max(1, (totalSessions * 3 + 2) \div 4)]

\* new RawSessionManager(ws, taskId, totalSessions)
RawSessionManager(ws, taskId, totalSessions) ==
    [ws |-> ws, taskId |-> taskId, totalSessions |-> totalSessions,
     sessions |-> <<>>, sessionQueue |-> <<>>, unhealthyCount |-> 0,
     unhealthyThreshold |-> Max(1, (totalSessions * 3) \div 4)]

\* new TaskConfig(delay, cookies), delay being a number
TaskConfig(delay, cookies) ==
    [delay |-> OrTen(ParseInt(NumToString(delay))), running |-> TRUE,
     cookies |-> cookies]

\* new TaskMessageData(threadID, messages, hatersName, lastName)
TaskMessageData(threadID, messages, hatersName, lastName) ==
    [threadID |-> threadID, messages |-> messages, hatersName |-> hatersName,
     lastName |-> lastName, currentIndex |-> 0, loopCount |-> 0]

\* nothing has happened to a new task: no event, no teardown (reason is the
\* reason of the stopTask call that removed it), no delivery
NoHistory ==
    [stopped |-> 0, task_started |-> 0, teardowns |-> 0, breaches |-> 0,
     intervals |-> 0, delivered |-> 0, reason |-> "none"]

\* startTask(ws, data), with the part of createRawSessions that runs before
\* its first await
startTask(s, ws, data) ==
    LET cookies == SplitList(data.cookieContent, NL)
        messages == SplitList(data.messageContent, NL)
        threadID == Trim(data.threadID)
        delay == OrTen(ParseInt(data.delay))
        haters == SplitList(data.hatersName, ",")
        lastNames == SplitList(data.lastHereName, ",")
    IN  IF ~ThreadIDValid(threadID)
        THEN WsSend(s, ws, "log", BogusId, <<"Invalid thread ID">>)
        ELSE
            LET taskId == FreshId(s)
                t == [taskId |-> taskId,
                      config |-> TaskConfig(delay, cookies),
                      messageData |-> TaskMessageData(threadID, messages, haters, lastNames),
                      rawManager |-> RawSessionManager(ws, taskId, Len(cookies)),
                      intervalId |-> Null,
                      ws |-> ws]
                s1 == [s EXCEPT !.task = @ @@ (taskId :> t),
                                !.tasks = @ \cup {taskId},
                                !.rt = @ @@ (taskId :> [boot |-> [i |-> 0, await |-> "none"],
                                                        timeouts |-> 0, ticks |-> <<>>]),
                                !.hist = @ @@ (taskId :> NoHistory)]
                s2 == CountTasks(s1)
                s3 == Log(s2, taskId, <<"Task started", ToString(taskId)>>)
            IN  createRawSessions(s3, taskId, 0)

(* ---------------------------- message loop ---------------------------- *)

\* arr[k] of a JavaScript array, k counted from 0, in a template string
At(arr, k) == IF k + 1 \in DOMAIN arr THEN arr[k + 1] ELSE Undefined

\* the values Math.floor(Math.random() * arr.length) can take
RandomIndexes(arr) == IF arr = <<>> THEN {0} ELSE 0..(Len(arr) - 1)

\* randomFrom(arr), the random index being k
randomFrom(arr, k) == At(arr, k)

\* the wrap at the head of runTaskLoop
NeedsWrap(md) == md.currentIndex >= Len(md.messages)

Wrap(md) ==
    IF NeedsWrap(md) THEN [md EXCEPT !.currentIndex = 0, !.loopCount = @ + 1] ELSE md

\* the template string of runTaskLoop
Compose(md, rh, rz) ==
    randomFrom(md.hatersName, rh) \o <<" ">> \o At(md.messages, md.currentIndex)
        \o <<" ">> \o randomFrom(md.lastName, rz)

\* the advance made without looking at ok
AfterSendAlways(s, taskId, ok) ==
    [s EXCEPT !.task[taskId].messageData.currentIndex = @ + 1,
              !.monitorData.totalSent = @ + 1]

\* the result dropped when the task has left the Registry meanwhile
AfterSendIfRegistered(s, taskId, ok) ==
    IF ok /\ taskId \in s.tasks
    THEN [s EXCEPT !.task[taskId].messageData.currentIndex = @ + 1,
                   !.monitorData.totalSent = @ + 1]
    ELSE s

\* runTaskLoop after `await rawSender.sendMessage(...)` gave ok
AfterSend(s, taskId, ok) ==
    IF ok
    THEN [s EXCEPT !.task[taskId].messageData.currentIndex = @ + 1,
                   !.monitorData.totalSent = @ + 1]
    ELSE s

\* whether runTaskLoop returns at its first line
LoopSkips(s, taskId) == taskId \notin s.tasks \/ ~s.task[taskId].config.running

\* runTaskLoop(taskId) up to its await, with the part of sendMessage that
\* runs before the first remote send: rh and rz are the two random indexes.
\* A cycle in flight carries, besides what sendMessage holds (sessions, the
\* position k in them, finalMsg), a record of the sequencer as the cycle
\* found it (began), as it read it (read), and whether another cycle of the
\* task was in flight with it (overlapped).
runTaskLoop(s, taskId, rh, rz) ==
    IF LoopSkips(s, taskId) THEN s
    ELSE
        LET md0 == s.task[taskId].messageData
            md == Wrap(md0)
            s1 == [s EXCEPT !.task[taskId].messageData = md]
            s2 == IF NeedsWrap(md0) THEN Log(s1, taskId, <<"Loop", ToString(md.loopCount)>>) ELSE s1
            finalMsg == Compose(md, rh, rz)
            sessions == getHealthySessions(s.task[taskId].rawManager)
            cycle == [sessions |-> sessions, k |-> 1, finalMsg |-> finalMsg,
                      began |-> [currentIndex |-> md0.currentIndex,
                                 loopCount |-> md0.loopCount],
                      read |-> [currentIndex |-> md.currentIndex,
                                loopCount |-> md.loopCount],
                      overlapped |-> s.rt[taskId].ticks # <<>>]
        IN  IF sessions = <<>> THEN AfterSend(s2, taskId, FALSE)
            ELSE [s2 EXCEPT !.rt[taskId].ticks =
                     Append([j \in DOMAIN @ |-> [@[j] EXCEPT !.overlapped = TRUE]], cycle)]

RemoveAt(seq, j) == SubSeq(seq, 1, j - 1) \o SubSeq(seq, j + 1, Len(seq))

\* sendMessage going on to the next handle after a send that succeeded
sendCallbackTryAll(s, taskId, j, err) ==
    LET cycle == s.rt[taskId].ticks[j]
        s1 == IF err THEN Log(s, taskId, <<"Send failed">>)
              ELSE Log(s, taskId, <<"Message sent">>)
    IN  IF cycle.k < Len(cycle.sessions)
        THEN [s1 EXCEPT !.rt[taskId].ticks[j].k = @ + 1]
        ELSE AfterSend([s1 EXCEPT !.rt[taskId].ticks = RemoveAt(@, j),
                                  !.hist[taskId].delivered = IF err THEN @ ELSE @ + 1],
                       taskId, ~err)

\* the callback of api.sendMessage for the j-th cycle in flight of the task,
\* and what sendMessage and runTaskLoop do when the awaited send resolves
sendCallback(s, taskId, j, err) ==
    LET cycle == s.rt[taskId].ticks[j]
    IN  IF ~err
        THEN LET s1 == Log(s, taskId, <<"Message sent">>)
                 s2 == [s1 EXCEPT !.rt[taskId].ticks = RemoveAt(@, j),
                                  !.hist[taskId].delivered = @ + 1]
             IN  AfterSend(s2, taskId, TRUE)
        ELSE LET s1 == Log(s, taskId, <<"Send failed">>)
             IN  IF cycle.k < Len(cycle.sessions)
                 THEN [s1 EXCEPT !.rt[taskId].ticks[j].k = @ + 1]
                 ELSE AfterSend([s1 EXCEPT !.rt[taskId].ticks = RemoveAt(@, j)],
                                taskId, FALSE)

(* ------------------------------ actions ------------------------------- *)

NoCallback == [op |-> "none"]

InitWith(limits) ==
    /\ lim = limits
    /\ fired = 0
    /\ conns = [c \in Conns |-> "NONE"]
    /\ tasks = {}
    /\ task = <<>>
    /\ monitorData = [activeTasks |-> 0, totalSent |-> 0]
    /\ timers = {}
    /\ rt = <<>>
    /\ out = <<>>
    /\ last = NoCallback
    /\ hist = <<>>

\* wss.on('connection')
Connect(c) ==
    /\ conns[c] = "NONE"
    /\ c <= lim.conns
    /\ Becomes([Cur EXCEPT !.conns[c] = "OPEN"])
    /\ UNCHANGED <<fired, lim>>
    /\ last' = [op |-> "connection", ws |-> c]

\* the peer goes away, or the keep-alive terminates the socket
Disconnect(c) ==
    /\ conns[c] = "OPEN"
    /\ Becomes([Cur EXCEPT !.conns[c] = "CLOSED"])
    /\ last' = [op |-> "close", ws |-> c]
    /\ UNCHANGED <<fired, lim>>

\* ws.on('message') with data.type === 'start'
OnStart(c, data) ==
    /\ conns[c] = "OPEN"
    /\ Cardinality(DOMAIN task) < lim.tasks
    /\ data \in Requests(lim.requests)
    /\ Becomes(startTask(Cur, c, data))
    /\ last' = [op |-> "start", ws |-> c, data |-> data]
    /\ UNCHANGED <<fired, lim>>

\* ws.on('message') with data.type === 'stop_by_id'
OnStopById(c, taskId) ==
    /\ conns[c] = "OPEN"
    /\ Becomes(stopTask(Cur, taskId, c, "Stopped"))
    /\ last' = [op |-> "stop_by_id", ws |-> c, taskId |-> taskId]
    /\ UNCHANGED <<fired, lim>>

\* ws.on('message') with data.type === 'monitor'; uptime is left out
OnMonitor(c) ==
    /\ conns[c] = "OPEN"
    /\ Becomes(WsSend(Cur, c, "monitor_data", BogusId,
                      <<ToString(monitorData.activeTasks),
                        ToString(monitorData.totalSent)>>))
    /\ last' = [op |-> "monitor", ws |-> c]
    /\ UNCHANGED <<fired, lim>>

\* the callback of wiegine.login for the credential being tried
LoginCallback(taskId, err) ==
    /\ taskId \in DOMAIN rt
    /\ rt[taskId].boot.await = "login"
    /\ Becomes(IF err THEN SessionFailed(Cur, taskId, "Session failed")
               ELSE [Cur EXCEPT !.rt[taskId].boot.await = "getThreadInfo"])
    /\ last' = [op |-> "login_cb", taskId |-> taskId, err |-> err]
    /\ UNCHANGED <<fired, lim>>

\* the callback of api.getThreadInfo
ThreadInfoCallback(taskId, err) ==
    /\ taskId \in DOMAIN rt
    /\ rt[taskId].boot.await = "getThreadInfo"
    /\ Becomes(IF err THEN SessionFailed(Cur, taskId, "Session no thread access")
               ELSE SessionReady(Cur, taskId))
    /\ last' = [op |-> "thread_cb", taskId |-> taskId, err |-> err]
    /\ UNCHANGED <<fired, lim>>

\* the setTimeout(..., 0) callback of checkStopCondition
TeardownTimeout(taskId) ==
    /\ taskId \in DOMAIN rt
    /\ rt[taskId].timeouts > 0
    /\ Becomes(stopTask([Cur EXCEPT !.rt[taskId].timeouts = @ - 1], taskId,
                        task[taskId].rawManager.ws, "Most cookies failed"))
    /\ last' = [op |-> "teardown", taskId |-> taskId]
    /\ UNCHANGED <<fired, lim>>

\* the setInterval callback
IntervalFire(taskId) ==
    /\ taskId \in timers
    /\ fired < lim.ticks
    /\ Len(rt[taskId].ticks) < MaxInflight
    /\ \E rh \in RandomIndexes(task[taskId].messageData.hatersName),
          rz \in RandomIndexes(task[taskId].messageData.lastName) :
            Becomes(runTaskLoop(Cur, taskId, rh, rz))
    /\ fired' = fired + 1
    /\ last' = [op |-> "tick", taskId |-> taskId]
    /\ UNCHANGED lim

\* the callback of api.sendMessage of a cycle in flight
SendCallback(taskId, j, err) ==
    /\ taskId \in DOMAIN rt
    /\ j \in DOMAIN rt[taskId].ticks
    /\ Becomes(sendCallback(Cur, taskId, j, err))
    /\ last' = [op |-> "send_cb", taskId |-> taskId, j |-> j, err |-> err]
    /\ UNCHANGED <<fired, lim>>

Next ==
    \/ \E c \in Conns : Connect(c)
    \/ \E c \in Conns : Disconnect(c)
    \/ \E c \in Conns, data \in StartRequests \cup PoolRequests : OnStart(c, data)
    \/ \E c \in Conns, taskId \in TaskIds \cup {BogusId} : OnStopById(c, taskId)
    \/ \E c \in Conns : OnMonitor(c)
    \/ \E taskId \in TaskIds, err \in BOOLEAN : LoginCallback(taskId, err)
    \/ \E taskId \in TaskIds, err \in BOOLEAN : ThreadInfoCallback(taskId, err)
    \/ \E taskId \in TaskIds : TeardownTimeout(taskId)
    \/ \E taskId \in TaskIds : IntervalFire(taskId)
    \/ \E taskId \in TaskIds, j \in 1..MaxInflight, err \in BOOLEAN :
          SendCallback(taskId, j, err)

\* one task at a time, every connection, every firing
Init ==
    InitWith([tasks |-> 1, conns |-> 1, ticks |-> MaxTicks, requests |-> "all"])

Spec == Init /\ [][Next]_vars

\* several tasks side by side
InitMulti ==
    InitWith([tasks |-> MaxTasks, conns |-> 1, ticks |-> 1, requests |-> "few"])

SpecMulti == InitMulti /\ [][Next]_vars

\* one task and every connection
InitConns ==
    InitWith([tasks |-> 1, conns |-> MaxConns, ticks |-> 1, requests |-> "few"])

SpecConns == InitConns /\ [][Next]_vars

\* the remote login, probe and zero-delay timeout eventually call back
Responsive ==
    /\ \A t \in TaskIds : WF_vars(\E err \in BOOLEAN : LoginCallback(t, err))
    /\ \A t \in TaskIds : WF_vars(\E err \in BOOLEAN : ThreadInfoCallback(t, err))
    /\ \A t \in TaskIds : WF_vars(TeardownTimeout(t))

\* one task with every request, one firing: the bootstrap and the teardown
InitBoot ==
    InitWith([tasks |-> 1, conns |-> 1, ticks |-> 1, requests |-> "all"])

FairSpec == InitBoot /\ [][Next]_vars /\ Responsive

\* one task with 0 to 4 credentials, one firing
InitPool ==
    InitWith([tasks |-> 1, conns |-> 1, ticks |-> 1, requests |-> "pool"])

SpecPool == InitPool /\ [][Next]_vars

FairPool == SpecPool /\ Responsive

(* ------------------------------- claims ------------------------------- *)

Created == DOMAIN task

Stopped(t) == t \in Created /\ t \notin tasks

Sequencer(t) == task[t].messageData

\* C1: two cycles of runTaskLoop of the same task are never in flight at
\* the same time.
C1_OneCycleAtATime == \A t \in Created : Len(rt[t].ticks) <= 1

\* C2: during one task's bootstrap the threshold breach is signalled (the
\* report and the deferred teardown) at most once.
C2_BreachSignalledOnce == \A t \in Created : hist[t].breaches <= 1

\* sendMessage of the j-th cycle in flight of task t returns in this step
Returns(t, j) ==
    /\ last'.op = "send_cb" /\ last'.taskId = t /\ last'.j = j
    /\ last'.err => rt[t].ticks[j].k = Len(rt[t].ticks[j].sessions)

SameSequencer(t) ==
    /\ Sequencer(t)'.currentIndex = Sequencer(t).currentIndex
    /\ Sequencer(t)'.loopCount = Sequencer(t).loopCount

\* C3, as claimed: a tick whose sendMessage returns false leaves currentIndex
\* and loopCount with the values they had when the tick began.  Stated for
\* the ticks that ran alone on a message list that is not empty.
C3_FailedTickRestoresSequencer ==
    [][\A t \in Created : \A j \in DOMAIN rt[t].ticks :
          (/\ Returns(t, j) /\ last'.err
           /\ ~rt[t].ticks[j].overlapped
           /\ Sequencer(t).messages # <<>>)
          => /\ Sequencer(t)'.currentIndex = rt[t].ticks[j].began.currentIndex
             /\ Sequencer(t)'.loopCount = rt[t].ticks[j].began.loopCount]_vars

\* C3, amended: currentIndex grows by exactly 1, loopCount unchanged, in the
\* step in which a tick's sendMessage returns true, and in no other step; a
\* return of false changes neither.  The only other change is the wrap at
\* the start of a tick that finds currentIndex >= the list length (index 0,
\* loopCount + 1), made before the send and kept when the send fails.
C3_AdvanceIffDelivered ==
    [][\A t \in Created :
          LET returnsTrue == last'.op = "send_cb" /\ last'.taskId = t /\ ~last'.err
              begins == last'.op = "tick" /\ last'.taskId = t
          IN  /\ returnsTrue =>
                    /\ Sequencer(t)'.currentIndex = Sequencer(t).currentIndex + 1
                    /\ Sequencer(t)'.loopCount = Sequencer(t).loopCount
              /\ begins =>
                    \/ SameSequencer(t)
                    \/ /\ Sequencer(t).currentIndex >= Len(Sequencer(t).messages)
                       /\ Sequencer(t)'.currentIndex = 0
                       /\ Sequencer(t)'.loopCount = Sequencer(t).loopCount + 1
              /\ (~returnsTrue /\ ~begins) => SameSequencer(t)]_vars

\* a tick that wrapped a non-empty list has had sendMessage return false
C3_Witness ==
    /\ last.op = "send_cb" /\ last.err
    /\ rt[last.taskId].ticks = <<>>
    /\ Sequencer(last.taskId).messages # <<>>
    /\ Sequencer(last.taskId).currentIndex = 0
    /\ Sequencer(last.taskId).loopCount = 1

\* C4: once a task has been stopped, no recurring timer is created for it
\* and no task_started event is emitted for it.
C4_NoRestartAfterStop ==
    [][\A t \in Created :
          Stopped(t) => /\ hist'[t].intervals = hist[t].intervals
                        /\ hist'[t].task_started = hist[t].task_started
                        /\ t \notin timers']_vars

\* C5: stopTask on a task id that is not in the Registry changes no state
\* and emits no event, whether it comes from stop_by_id or from a deferred
\* teardown; and no task id ever gets a second 'stopped' event.
C5_StopAbsentIsNoOp ==
    /\ [](\A t \in Created : hist[t].stopped <= 1)
    /\ [][(last'.op \in {"stop_by_id", "teardown"} /\ last'.taskId \notin tasks)
            => /\ UNCHANGED <<tasks, task, monitorData, timers, hist, conns>>
               /\ out' = <<>>
               /\ \A t \in Created :
                     /\ rt'[t].boot = rt[t].boot
                     /\ rt'[t].ticks = rt[t].ticks
                     /\ rt'[t].timeouts =
                            IF last'.op = "teardown" /\ last'.taskId = t
                            THEN rt[t].timeouts - 1 ELSE rt[t].timeouts]_vars

\* a stop request for a task that was stopped before, with its one event
C5_Witness ==
    /\ last.op = "stop_by_id"
    /\ Stopped(last.taskId)
    /\ out = <<>>
    /\ hist[last.taskId].stopped = 1
    /\ tasks # {}

\* C6: monitorData.activeTasks is the size of the Registry in every state,
\* and a monitor_data reply carries that size.
C6_ActiveTasksIsRegistrySize ==
    /\ monitorData.activeTasks = Cardinality(tasks)
    /\ last.op = "monitor" =>
          out = <<Event(last.ws, "monitor_data", BogusId,
                        <<ToString(Cardinality(tasks)),
                          ToString(monitorData.totalSent)>>)>>

\* a monitor query answered while one task is live and another has stopped
C6_Witness ==
    /\ last.op = "monitor"
    /\ Cardinality(tasks) = 1
    /\ \E t \in Created : Stopped(t)

\* the task's bootstrap ended without a healthy handle, or its
\* unhealthyCount has reached the threshold
Doomed(t) ==
    /\ t \in Created
    /\ \/ rt[t].boot.await = "done" /\ task[t].rawManager.sessions = <<>>
       \/ task[t].rawManager.unhealthyCount >= task[t].rawManager.unhealthyThreshold

TornDown(t) == Stopped(t) /\ ~task[t].config.running

\* C7, as claimed: every such task is eventually removed from the Registry,
\* its running flag cleared, and a 'stopped' event emitted for it.
C7_DoomedTaskStopsWithEvent ==
    \A t \in TaskIds : Doomed(t) ~> (TornDown(t) /\ hist[t].stopped >= 1)

\* C7, amended: every such task is eventually removed from the Registry and
\* its running flag cleared; the 'stopped' event is emitted for it unless
\* the task's connection is no longer open.
C7_DoomedTaskStops ==
    \A t \in TaskIds :
        Doomed(t) ~> (/\ TornDown(t)
                      /\ hist[t].stopped >= 1 \/ conns[task[t].ws] # "OPEN")

\* the deferred teardown stops a task that has a healthy handle, and the
\* event goes out
C7_Witness ==
    /\ last.op = "teardown"
    /\ TornDown(last.taskId)
    /\ task[last.taskId].rawManager.sessions # <<>>
    /\ \E k \in DOMAIN out :
          out[k].type = "stopped" /\ out[k].body = <<"Most cookies failed">>

\* C8: no task is created from an empty message list or name list, so no
\* cycle composes a message from one.
C8_NoCycleOnEmptyList ==
    \A t \in Created :
        rt[t].ticks # <<>> =>
            /\ Sequencer(t).messages # <<>>
            /\ Sequencer(t).hatersName # <<>>
            /\ Sequencer(t).lastName # <<>>

HasNonDigit(s) == \E i \in 1..Len(s) : s[i] \notin Digits

InvalidThreadLog(c) == Event(c, "log", BogusId, <<"Invalid thread ID">>)

\* C9: a start request whose trimmed threadID has a character that is not
\* a digit sends one 'log' error to the requester and changes nothing else.
C9_InvalidThreadRejected ==
    [][(last'.op = "start" /\ HasNonDigit(Trim(last'.data.threadID)))
          => /\ out' = <<InvalidThreadLog(last'.ws)>>
             /\ UNCHANGED <<tasks, task, monitorData, timers, rt, hist, conns>>]_vars

\* such a request has been answered
C9_Witness ==
    /\ last.op = "start"
    /\ HasNonDigit(Trim(last.data.threadID))
    /\ out = <<InvalidThreadLog(last.ws)>>

\* C10: a cycle that finds currentIndex equal to the list length reads the
\* list at index 0 with loopCount one higher; every cycle reads at an index
\* in [0, length) and never with a lower loopCount.
C10_ReadIndexInRange ==
    \A t \in Created : \A j \in DOMAIN rt[t].ticks :
        LET c == rt[t].ticks[j]
            L == Len(Sequencer(t).messages)
        IN  /\ c.began.currentIndex = L =>
                  c.read = [currentIndex |-> 0, loopCount |-> c.began.loopCount + 1]
            /\ c.read.currentIndex \in 0..(L - 1)
            /\ c.read.loopCount >= c.began.loopCount

\* sendMessage of the j-th cycle in flight of task t returns true in this step
Delivers(t, j) ==
    last'.op = "send_cb" /\ last'.taskId = t /\ last'.j = j /\ ~last'.err

\* the bodies runTaskLoop can compose around message k of the list
BodiesOf(md, k) ==
    { Compose([md EXCEPT !.currentIndex = k], rh, rz) :
        rh \in RandomIndexes(md.hatersName), rz \in RandomIndexes(md.lastName) }

\* C11: for a message list of length L >= 1, the k-th successful delivery of
\* a task (k = 0, 1, 2, ...) carries message k mod L of the list, and was
\* composed with loop counter floor(k / L).
C11_DeliveriesFollowList ==
    [][\A t \in Created : \A j \in DOMAIN rt[t].ticks :
          LET c == rt[t].ticks[j]
              L == Len(Sequencer(t).messages)
              k == hist[t].delivered
          IN  (Delivers(t, j) /\ L >= 1)
              => /\ c.read.currentIndex = k % L
                 /\ c.read.loopCount = k \div L
                 /\ c.finalMsg \in BodiesOf(Sequencer(t), k % L)]_vars

\* the indexes of the pool entries that are healthy
HealthyIndexes(t) ==
    { task[t].rawManager.sessions[i].index :
        i \in { n \in DOMAIN task[t].rawManager.sessions :
                  task[t].rawManager.sessions[n].healthy } }

\* C12: sendMessage tries the healthy handles in credential order, one send
\* per handle; the first send that succeeds ends it with true (totalSent
\* grows), a send that fails moves it to the next handle, and with the last
\* handle's failure it ends with false; with no healthy handle it ends with
\* false at once.  A send's callback never changes the pool.
C12_FirstSuccessWins ==
    [][\A t \in Created :
          /\ \A j \in DOMAIN rt[t].ticks :
                LET c == rt[t].ticks[j]
                    n == Len(c.sessions)
                IN  (last'.op = "send_cb" /\ last'.taskId = t /\ last'.j = j)
                    => /\ c.k \in 1..n
                       /\ \A a, b \in 1..n : a < b => c.sessions[a] < c.sessions[b]
                       /\ {c.sessions[a] : a \in 1..n} = HealthyIndexes(t)
                       /\ task'[t].rawManager = task[t].rawManager
                       /\ IF last'.err /\ c.k < n
                          THEN /\ rt'[t].ticks = [rt[t].ticks EXCEPT ![j].k = c.k + 1]
                               /\ monitorData'.totalSent = monitorData.totalSent
                          ELSE /\ rt'[t].ticks = RemoveAt(rt[t].ticks, j)
                               /\ monitorData'.totalSent =
                                     monitorData.totalSent + (IF last'.err THEN 0 ELSE 1)
          /\ (/\ last'.op = "tick" /\ last'.taskId = t /\ ~LoopSkips(Cur, t)
              /\ HealthyIndexes(t) = {})
                => /\ rt'[t].ticks = rt[t].ticks
                   /\ monitorData'.totalSent = monitorData.totalSent]_vars

\* the first handle's send succeeded while a second healthy handle was left
\* untried
C12_Witness ==
    /\ last.op = "send_cb" /\ ~last.err
    /\ rt[last.taskId].ticks = <<>>
    /\ Cardinality(HealthyIndexes(last.taskId)) = 2
    /\ hist[last.taskId].delivered = 1
    /\ fired = 1

\* task t has 4 credentials, 3 of them have failed and 1 is healthy
ThreeOfFourFailed(t) ==
    /\ t \in Created
    /\ Len(task[t].config.cookies) = 4
    /\ task[t].rawManager.unhealthyCount = 3
    /\ Len(task[t].rawManager.sessions) = 1

\* the Stopped state of the scheduler: out of the Registry, running flag
\* cleared, no active interval
StoppedState(t) == TornDown(t) /\ t \notin timers

\* C13: a task with 4 credentials of which 3 fail and 1 becomes healthy, and
\* which no stop_by_id of the client has removed, ends in the Stopped state,
\* torn down by the deferred stopTask with reason 'Most cookies failed' (a
\* stop_by_id that comes first gives 'Stopped'), and stays there: it does
\* not run on its healthy handle.
C13_BreachStopsTask ==
    \A t \in TaskIds :
        (ThreeOfFourFailed(t) /\ hist[t].reason # "Stopped")
            ~> [](/\ StoppedState(t)
                  /\ hist[t].reason \in {"Most cookies failed", "Stopped"})

\* what does hold of such a task: it leaves the Registry for good with its
\* running flag cleared, and the call that removes it has one of these two
\* reasons
C13_LeavesRegistry ==
    \A t \in TaskIds :
        ThreeOfFourFailed(t)
            ~> [](/\ TornDown(t)
                  /\ hist[t].reason \in {"Most cookies failed", "Stopped"})

OneCredential(t) == Len(task[t].config.cookies) = 1

StoppedEvent(t, reason) == Event(task[t].ws, "stopped", t, <<reason>>)

\* C14: when the login or the access check of a single-credential task
\* fails, the deferred teardown is scheduled and, in the same turn of the
\* event loop, the bootstrap-completion check stops the task with reason 'No
\* healthy cookies'; the task gets at most one 'stopped' event and never one
\* with 'Most cookies failed', the deferred teardown finding it gone.
C14_SingleCredentialStop ==
    /\ [](\A t \in Created :
            OneCredential(t) =>
               /\ hist[t].stopped <= 1
               /\ hist[t].reason # "Most cookies failed"
               /\ \A k \in DOMAIN out : out[k] # StoppedEvent(t, "Most cookies failed"))
    /\ [][\A t \in Created :
            (/\ last'.op \in {"login_cb", "thread_cb"} /\ last'.taskId = t /\ last'.err
             /\ OneCredential(t) /\ t \in tasks)
            => /\ rt'[t].timeouts = rt[t].timeouts + 1
               /\ hist'[t].breaches = hist[t].breaches + 1
               /\ t \notin tasks'
               /\ hist'[t].reason = "No healthy cookies"
               /\ conns[task[t].ws] = "OPEN" =>
                     /\ hist'[t].stopped = 1
                     /\ \E k \in DOMAIN out' :
                           out'[k] = StoppedEvent(t, "No healthy cookies")]_vars

\* the deferred teardown has run after the task got its one event from the
\* bootstrap-completion check
C14_Witness ==
    /\ last.op = "teardown"
    /\ OneCredential(last.taskId)
    /\ task[last.taskId].rawManager.unhealthyCount = 1
    /\ hist[last.taskId].reason = "No healthy cookies"
    /\ hist[last.taskId].stopped = 1
    /\ out = <<>>

\* th is max(1, floor(0.75 * n)), said without computing it: th is 1 when
\* three quarters of n is below 2, and otherwise the integer with
\* th <= 3n/4 < th + 1
IsThreshold(th, n) ==
    /\ th >= 1
    /\ IF 3 * n < 8 THEN th = 1 ELSE 4 * th <= 3 * n /\ 3 * n < 4 * (th + 1)

\* a credential of task t fails in this step
Fails(t) ==
    task'[t].rawManager.unhealthyCount = task[t].rawManager.unhealthyCount + 1

\* C15: the pool's unhealthyThreshold is max(1, floor(0.75 * N)) for the
\* number N of credentials of the task, and a failure signals the breach
\* (the report and one more deferred teardown) exactly when the unhealthy
\* count it leaves is at or above that threshold.
C15_ThresholdAndBreach ==
    /\ [](\A t \in Created :
            /\ task[t].rawManager.totalSessions = Len(task[t].config.cookies)
            /\ IsThreshold(task[t].rawManager.unhealthyThreshold,
                           Len(task[t].config.cookies)))
    /\ [][\A t \in Created :
            LET m == task'[t].rawManager
                signalled == /\ rt'[t].timeouts = rt[t].timeouts + 1
                             /\ hist'[t].breaches = hist[t].breaches + 1
                silent == /\ rt'[t].timeouts = rt[t].timeouts
                          /\ hist'[t].breaches = hist[t].breaches
            IN  IF Fails(t)
                THEN IF m.unhealthyCount >= m.unhealthyThreshold
                     THEN signalled ELSE silent
                ELSE /\ m.unhealthyCount = task[t].rawManager.unhealthyCount
                     /\ hist'[t].breaches = hist[t].breaches
                     /\ rt'[t].timeouts <= rt[t].timeouts]_vars

\* both outcomes with 4 credentials: the second failure is below the
\* threshold 3, the third reaches it
C15_Witness ==
    /\ last.op \in {"login_cb", "thread_cb"} /\ last.err
    /\ Len(task[last.taskId].config.cookies) = 4
    /\ task[last.taskId].rawManager.unhealthyThreshold = 3
    /\ task[last.taskId].rawManager.unhealthyCount = 3
    /\ hist[last.taskId].breaches = 1

\* C16: the delay interval of every created task is an integer number of
\* seconds >= 1, whatever the delay field of the start request carries.
C16_DelayAtLeastOne ==
    \A t \in Created : task[t].config.delay \in Nat \ {0}

\* task t is in the Registry with its running flag set
Running(t) == t \in tasks /\ task[t].config.running

\* a remote send for task t begins in this step: the first send of a cycle
\* a timer firing starts, or the send on the next handle after a failure
SendBegins(t) ==
    \/ /\ last'.op = "tick" /\ last'.taskId = t
       /\ Len(rt'[t].ticks) = Len(rt[t].ticks) + 1
    \/ /\ last'.op = "send_cb" /\ last'.taskId = t /\ last'.err
       /\ last'.j \in DOMAIN rt[t].ticks
       /\ rt[t].ticks[last'.j].k < Len(rt[t].ticks[last'.j].sessions)

\* C17: every remote send for a task begins while the task is in the
\* Registry with its running flag set.
C17_SendsBeginWhileRunning ==
    [][\A t \in Created : SendBegins(t) => Running(t)]_vars

\* the number of ticks, over the tasks in S, whose sendMessage returned true
RECURSIVE DeliveredBy(_)
DeliveredBy(S) ==
    IF S = {} THEN 0
    ELSE LET t == CHOOSE x \in S : TRUE
         IN  hist[t].delivered + DeliveredBy(S \ {t})

\* C18: totalSent grows by exactly 1 in the step in which a tick's
\* sendMessage returns true, whether or not the task has been stopped since
\* the tick began, and changes in no other step; it is the number of ticks,
\* over all tasks, whose sendMessage returned true.
C18_TotalSentCountsDeliveries ==
    /\ [](monitorData.totalSent = DeliveredBy(Created))
    /\ [][LET delivers == \E t \in Created : \E j \in DOMAIN rt[t].ticks : Delivers(t, j)
          IN  /\ delivers =>
                    /\ monitorData'.totalSent = monitorData.totalSent + 1
                    /\ Len(rt'[last'.taskId].ticks) = Len(rt[last'.taskId].ticks) - 1
              /\ ~delivers => monitorData'.totalSent = monitorData.totalSent]_vars

\* a tick that was in flight when its task was stopped has delivered, after
\* an earlier delivery
C18_Witness ==
    /\ last.op = "send_cb" /\ ~last.err
    /\ Stopped(last.taskId)
    /\ hist[last.taskId].reason = "Stopped"
    /\ monitorData.totalSent = 2

\* createRawSessions starts the login of a credential of task t in this step
LoginBegins(t) ==
    /\ rt'[t].boot.await = "login"
    /\ rt[t].boot.await # "login" \/ rt'[t].boot.i # rt[t].boot.i

\* C19: once a task has been stopped, no login is started for the
\* credentials its bootstrap has not tried yet.
C19_NoLoginAfterStop ==
    [][\A t \in Created : Stopped(t) => ~LoginBegins(t)]_vars

\* C20: every event about a task is sent on the connection that created the
\* task, and a stop_by_id removes a task only when it arrives on that
\* connection.
C20_OnlyOwnerStops ==
    [][\A t \in DOMAIN task' :
          /\ \A k \in DOMAIN out' : out'[k].taskId = t => out'[k].to = task'[t].ws
          /\ (last'.op = "stop_by_id" /\ t \in tasks /\ t \notin tasks')
                => last'.ws = task[t].ws]_vars

====
